---- MODULE Spec2Model ----
(***************************************************************************)
(* Search control of the cp-assignments lab scripts: the finite-domain     *)
(* store with its trail, constraint propagation to a fixpoint, the         *)
(* depth-first search driver with branch-and-bound, and the LNS loop of    *)
(* lab9 (wt.py).  The scripts hand their models to an imported constraint  *)
(* engine; the engine's store, trail, propagation and tree search are      *)
(* modelled here from the design document, the scripts' own loops, bounds  *)
(* and fragment selection from the scripts.                                *)
(***************************************************************************)
EXTENDS Integers, Sequences, FiniteSets, TLC

VARIABLES
    store,      \* Domain Store: [dom, trail, marks]
    snaps,      \* history: the domains at each live mark (parallel to store.marks)
    popped,     \* history: the snapshot the last popToMark had to restore, or NoPop
    model,      \* the posted model: [doms, cons, obj, sense]
    worklist,   \* propagation: the constraints to (re-)examine, as indices of model.cons
    bound,      \* Branch-and-Bound: the objective bound in force, or NoBound
    phase,      \* propagation runs: "first", "second" fixpoint run
    fixDom,     \* history: the domains at the end of the first fixpoint run
    state,      \* Search Tree Driver: its state
    stack,      \* Search Tree Driver: the Choice Points, the root's first
    expired,    \* the time limit of the run has expired
    cfg,        \* the run's monitors and the variables of its Decision
                \* Builder: [time_limit, stop_after, scope]
    zbest,      \* the script's record of the last solution's objective, or None
    xbest,      \* the script's record of the last solution's values
    scnt,       \* the script's count of solutions
    sols,       \* history: the SolutionFound events, [x, z], in order
    report,     \* the lines the script prints after the search, or NoReport
    lns,        \* wt.py's LNS process: its data, parameters and loop variables
    twin        \* two executions of wt.py's LNS process on one data file

trailHist == <<snaps, popped>>
propHist == <<phase, fixDom>>
searchVars == <<state, stack, expired, cfg, zbest, xbest, scnt, sols, report>>
vars == <<store, snaps, popped, model, worklist, bound, phase, fixDom,
          state, stack, expired, cfg, zbest, xbest, scnt, sols, report, lns,
          twin>>

(***************************************************************************)
(* Bounds of the model.                                                    *)
(***************************************************************************)
TrailNumVars == 2
TrailMaxVal == 1
MaxTrail == 3
MaxMarks == 2

Vars == 1..TrailNumVars
Values == 0..TrailMaxVal

NoSnap == <<>>
NoPop == [snap |-> <<>>, undone |-> -1]

(***************************************************************************)
(* Domain Store and Trail (design 4.1).                                    *)
(***************************************************************************)
SetMin(S) == CHOOSE m \in S : \A y \in S : m <= y
SetMax(S) == CHOOSE m \in S : \A y \in S : m >= y

\* a store with the given domains and an empty trail
NewStore(d) == [dom |-> d, trail |-> <<>>, marks |-> <<>>]

\* every narrowing first pushes the pre-narrowing domain onto the trail
Narrow(st, v, newDom) ==
    [st EXCEPT !.trail = Append(@, <<v, st.dom[v]>>), !.dom[v] = newDom]

\* the mutant: the domain is changed without a trail entry
AssignNoTrail(st, v, val) == [st EXCEPT !.dom[v] = @ \cap {val}]

\* assign: the singleton {val}, or the empty domain (DomainEmpty) when val is absent
assign(st, v, val) == Narrow(st, v, st.dom[v] \cap {val})
removeValue(st, v, val) == Narrow(st, v, st.dom[v] \ {val})
restrictMin(st, v, m) == Narrow(st, v, {x \in st.dom[v] : x >= m})
restrictMax(st, v, m) == Narrow(st, v, {x \in st.dom[v] : x <= m})

\* an empty domain signals failure
DomainEmpty(st) == \E v \in DOMAIN st.dom : st.dom[v] = {}

pushMark(st) == [st EXCEPT !.marks = Append(@, Len(st.trail))]

\* undo the trail entries above position n, the most recent first
RECURSIVE UndoTo(_, _, _)
UndoTo(d, tr, n) ==
    IF Len(tr) <= n THEN d
    ELSE UndoTo([d EXCEPT ![tr[Len(tr)][1]] = tr[Len(tr)][2]],
                SubSeq(tr, 1, Len(tr) - 1), n)

\* the mutant: the entries are replayed oldest first, so that a variable
\* narrowed twice keeps its intermediate domain
RECURSIVE UndoForward(_, _, _)
UndoForward(d, tr, n) ==
    IF Len(tr) <= n THEN d
    ELSE UndoForward([d EXCEPT ![tr[n + 1][1]] = tr[n + 1][2]],
                     SubSeq(tr, 1, n) \o SubSeq(tr, n + 2, Len(tr)), n)

Restore(d, tr, n) == UndoTo(d, tr, n)

\* popToMark(token): restore all domains recorded since mark k, discard the
\* entries and the marks from k on
popToMark(st, k) ==
    [dom |-> Restore(st.dom, st.trail, st.marks[k]),
     trail |-> SubSeq(st.trail, 1, st.marks[k]),
     marks |-> SubSeq(st.marks, 1, k - 1)]

(***************************************************************************)
(* The store driven through its API: any sequence of marks, narrowings and *)
(* pops.                                                                   *)
(***************************************************************************)
NoModel == [doms |-> <<>>, cons |-> <<>>, obj |-> 0]
\* no bound posted: above every objective value
NoBound == 999
None == -1
NoReport == [lines |-> {}, value |-> None]

IdleLns == lns = [pc |-> "idle"]
IdleTwin == twin = [pc |-> "idle"]

\* what a specification that runs no search leaves alone
IdleSearch ==
    /\ state = "Idle"
    /\ stack = <<>>
    /\ expired = FALSE
    /\ cfg = [time_limit |-> FALSE, stop_after |-> None, scope |-> {}]
    /\ zbest = None
    /\ xbest = <<>>
    /\ scnt = 0
    /\ sols = <<>>
    /\ report = NoReport

\* what a specification that does not propagate or search leaves alone
IdleEngine ==
    /\ model = NoModel
    /\ worklist = <<>>
    /\ bound = NoBound
    /\ phase = "idle"
    /\ fixDom = NoSnap

InitTrail ==
    /\ store = NewStore([v \in Vars |-> Values])
    /\ snaps = <<>>
    /\ popped = NoPop
    /\ IdleEngine
    /\ IdleSearch
    /\ IdleLns
    /\ IdleTwin

CanNarrow == ~DomainEmpty(store) /\ Len(store.trail) < MaxTrail

TAssign ==
    /\ CanNarrow
    /\ \E v \in Vars, val \in Values : store' = assign(store, v, val)
    /\ popped' = NoPop
    /\ UNCHANGED snaps

TRemoveValue ==
    /\ CanNarrow
    /\ \E v \in Vars, val \in Values : store' = removeValue(store, v, val)
    /\ popped' = NoPop
    /\ UNCHANGED snaps

TRestrictMin ==
    /\ CanNarrow
    /\ \E v \in Vars, m \in Values : store' = restrictMin(store, v, m)
    /\ popped' = NoPop
    /\ UNCHANGED snaps

TRestrictMax ==
    /\ CanNarrow
    /\ \E v \in Vars, m \in Values : store' = restrictMax(store, v, m)
    /\ popped' = NoPop
    /\ UNCHANGED snaps

TPushMark ==
    /\ ~DomainEmpty(store)
    /\ Len(store.marks) < MaxMarks
    /\ store' = pushMark(store)
    /\ snaps' = Append(snaps, store.dom)
    /\ popped' = NoPop

TPopToMark ==
    \E k \in 1..Len(store.marks) :
        /\ store' = popToMark(store, k)
        /\ popped' = [snap |-> snaps[k],
                      undone |-> Len(store.trail) - store.marks[k]]
        /\ snaps' = SubSeq(snaps, 1, k - 1)

TrailFrame == UNCHANGED <<model, worklist, bound, propHist, searchVars, lns, twin>>

NextTrail ==
    \/ TAssign /\ TrailFrame
    \/ TRemoveValue /\ TrailFrame
    \/ TRestrictMin /\ TrailFrame
    \/ TRestrictMax /\ TrailFrame
    \/ TPushMark /\ TrailFrame
    \/ TPopToMark /\ TrailFrame

SpecTrail == InitTrail /\ [][NextTrail]_vars

\* C4: popToMark to a mark leaves every variable's domain exactly equal to
\* the domain it had when that mark was taken, whatever assign, removeValue,
\* restrictMin and restrictMax narrowings were performed after the mark.
TrailRoundTrip == popped.undone >= 0 => store.dom = popped.snap

\* a pop that undid two narrowings and left an older entry on the trail
TrailRoundTripWitness ==
    /\ popped.undone >= 2
    /\ store.dom = popped.snap
    /\ \E v \in Vars : store.dom[v] # Values

(***************************************************************************)
(* Constraints (design 3, 4.2): a closed set of variants sharing one       *)
(* propagate contract.  The variants are the relations the scripts post.   *)
(***************************************************************************)
PropNumVars == 3
PropMaxVal == 2
PropMaxCons == 2

Abs(n) == IF n < 0 THEN -n ELSE n

RECURSIVE SumOver(_, _)
SumOver(t, S) ==
    IF S = {} THEN 0
    ELSE LET u == CHOOSE u \in S : TRUE IN t[u] + SumOver(t, S \ {u})

\* x[i] != x[j]: each chemical goes to a different tank
Neq(i, j) == [kind |-> "neq", i |-> i, j |-> j]
\* x[i] > x[j]: symmetry breaking between the VMs of one service
Gt(i, j) == [kind |-> "gt", i |-> i, j |-> j]
\* abs(x[i] - x[j]) > 1: conflicting chemicals are not adjacent
Far(i, j) == [kind |-> "far", i |-> i, j |-> j]
\* z == 1 + Max(x): the cost definition of the VM model
Max1(z) == [kind |-> "max1", i |-> z, j |-> 0]
\* z == the sum of the x: a sum objective
SumIs(z) == [kind |-> "sum", i |-> z, j |-> 0]
\* z == the sum of (d - x): storage costs, deadline minus production date
Slack(z, d) == [kind |-> "slack", i |-> z, j |-> d]
\* the bound of the Branch-and-Bound Controller on the objective z
Bound(z) == [kind |-> "bound", i |-> z, j |-> 0]

\* the variables a constraint references, in a model with domains d
Scope(c, d) ==
    CASE c.kind \in {"neq", "gt", "far"} -> {c.i, c.j}
      [] c.kind \in {"max1", "sum", "slack"} -> DOMAIN d
      [] c.kind = "bound" -> {c.i}

\* the predicate of a constraint over a tuple t of values of its scope
Sat(c, t, bnd) ==
    CASE c.kind = "neq" -> t[c.i] # t[c.j]
      [] c.kind = "gt" -> t[c.i] > t[c.j]
      [] c.kind = "far" -> Abs(t[c.i] - t[c.j]) > 1
      [] c.kind = "max1" ->
            t[c.i] = 1 + SetMax({t[u] : u \in (DOMAIN t) \ {c.i}})
      [] c.kind = "sum" -> t[c.i] = SumOver(t, (DOMAIN t) \ {c.i})
      [] c.kind = "slack" ->
            t[c.i] = SumOver([u \in DOMAIN t |-> c.j - t[u]],
                             (DOMAIN t) \ {c.i})
      [] c.kind = "bound" -> t[c.i] <= bnd

\* the tuples of current domain values that satisfy c
Supports(c, d, bnd) ==
    {t \in [Scope(c, d) -> UNION {d[u] : u \in Scope(c, d)}] :
        /\ \A u \in Scope(c, d) : t[u] \in d[u]
        /\ Sat(c, t, bnd)}

\* the values of v that c cannot prove infeasible
Revised(c, d, v, bnd) == {t[v] : t \in Supports(c, d, bnd)}

RECURSIVE SortedSeq(_)
SortedSeq(S) ==
    IF S = {} THEN <<>> ELSE <<SetMin(S)>> \o SortedSeq(S \ {SetMin(S)})

RECURSIVE NarrowAll(_, _, _)
NarrowAll(st, vs, nd) ==
    IF vs = <<>> THEN st
    ELSE NarrowAll(Narrow(st, Head(vs), nd[Head(vs)]), Tail(vs), nd)

\* the variables of its scope that c narrows in store st
NarrowedBy(c, st, bnd) ==
    {v \in Scope(c, st.dom) : Revised(c, st.dom, v, bnd) # st.dom[v]}

\* propagate(store): removes the values c proves infeasible, each narrowing
\* trailed; Unchanged when nothing is removed, Fail when a domain empties
propagate(c, st, bnd) ==
    LET ch == NarrowedBy(c, st, bnd)
        nd == [v \in ch |-> Revised(c, st.dom, v, bnd)]
        st2 == NarrowAll(st, SortedSeq(ch), nd)
    IN [store |-> st2,
        changed |-> ch,
        outcome |-> IF DomainEmpty(st2) THEN "Fail"
                    ELSE IF ch = {} THEN "Unchanged" ELSE "Narrowed"]

InList(wl, k) == \E n \in 1..Len(wl) : wl[n] = k

\* the mutant: a narrowing wakes no constraint
NoReactivate(wl, cons, d, changed) == wl

\* after a narrowing, every constraint that references a narrowed variable is
\* put back on the worklist
Reactivate(wl, cons, d, changed) ==
    wl \o SortedSeq({k \in 1..Len(cons) :
                        /\ ~InList(wl, k)
                        /\ Scope(cons[k], d) \cap changed # {}})

AllConstraints(cons) == [k \in 1..Len(cons) |-> k]

\* the mutant: the constraints still waiting stay on the worklist
KeepWaiting(wl) == wl

\* on Fail the engine stops: the constraints still waiting are dropped
StopOnFail(wl) == <<>>

\* one step of the propagation loop: dequeue and examine one constraint;
\* on Fail the worklist is dropped, nothing else is examined
Examine(st, wl, cons, bnd) ==
    LET r == propagate(cons[Head(wl)], st, bnd)
    IN [store |-> r.store,
        outcome |-> r.outcome,
        worklist |-> IF r.outcome = "Fail" THEN StopOnFail(Tail(wl))
                     ELSE Reactivate(Tail(wl), cons, st.dom, r.changed)]

(***************************************************************************)
(* Propagation to a fixpoint, run twice in a row on one domain state.      *)
(***************************************************************************)
PropVars == 1..PropNumVars
PropValues == 0..PropMaxVal

Pool ==
    {Neq(i, j) : i, j \in PropVars} \cup {Far(i, j) : i, j \in PropVars}
        \cup {Gt(i, j) : i, j \in PropVars}

ConsPool == {c \in Pool : c.i # c.j /\ (c.kind = "gt" \/ c.i < c.j)}

ConsSeqs(n) == UNION {[1..m -> ConsPool] : m \in 0..n}

InitProp ==
    /\ \E cs \in ConsSeqs(PropMaxCons), hole \in PropValues \cup {-1} :
          /\ hole # -1 => Len(cs) < PropMaxCons
          /\ model = [doms |-> [v \in PropVars |->
                                   IF v = 1 THEN PropValues \ {hole}
                                   ELSE PropValues],
                      cons |-> cs, obj |-> 0]
          /\ store = NewStore(model.doms)
          /\ worklist = AllConstraints(cs)
    /\ bound = NoBound
    /\ phase = "first"
    /\ fixDom = NoSnap
    /\ snaps = <<>>
    /\ popped = NoPop
    /\ IdleSearch
    /\ IdleLns
    /\ IdleTwin

PExamine ==
    /\ phase \in {"first", "second"}
    /\ worklist # <<>>
    /\ LET r == Examine(store, worklist, model.cons, bound)
       IN /\ store' = r.store
          /\ worklist' = r.worklist
          /\ phase' = IF r.outcome = "Fail" THEN "failed" ELSE phase
    /\ UNCHANGED <<model, bound, fixDom, trailHist, searchVars, lns, twin>>

\* the fixpoint is reached without failure: run propagation again
PRunAgain ==
    /\ phase = "first"
    /\ worklist = <<>>
    /\ fixDom' = store.dom
    /\ worklist' = AllConstraints(model.cons)
    /\ phase' = "second"
    /\ UNCHANGED <<store, model, bound, trailHist, searchVars, lns, twin>>

NextProp ==
    \/ PExamine
    \/ PRunAgain

SpecProp == InitProp /\ [][NextProp]_vars

\* C5: once propagation has run to its fixpoint without failure, a second
\* run to fixpoint in that domain state removes no value from any domain
\* (and never fails).
PropagationIdempotent == phase = "second" => store.dom = fixDom

\* the second run has drained its worklist after a first run that narrowed
\* a domain in a second round (a reactivated constraint narrowed again)
PropagationIdempotentWitness ==
    /\ phase = "second"
    /\ worklist = <<>>
    /\ store.dom = fixDom
    /\ \E n, m \in 1..Len(store.trail) :
          n < m /\ store.trail[n][1] = store.trail[m][1]

(***************************************************************************)
(* Search Tree Driver (design 4.3), Branch-and-Bound (4.5) and the         *)
(* scripts' solution loop.                                                 *)
(***************************************************************************)
SearchMaxVal == 2

\* run propagation to its fixpoint: drain the worklist, stop on Fail
RECURSIVE Fixpoint(_, _, _, _)
Fixpoint(st, wl, cons, bnd) ==
    IF wl = <<>> THEN [store |-> st, failed |-> FALSE]
    ELSE LET r == Examine(st, wl, cons, bnd)
         IN IF r.outcome = "Fail" THEN [store |-> r.store, failed |-> TRUE]
            ELSE Fixpoint(r.store, r.worklist, cons, bnd)

IsBound(st, v) == Cardinality(st.dom[v]) = 1
Value(st, v) == CHOOSE a \in st.dom[v] : TRUE

\* the decision variables x of a model: all but the objective variable
XVars(m) == (DOMAIN m.doms) \ {m.obj}
Unbound(m, st) == {v \in XVars(m) : ~IsBound(st, v)}

NoDecision == [var |-> 0, val |-> 0]

\* the unbound variables among those handed to slv.Phase
Pending(m, st) == Unbound(m, st) \cap cfg.scope

\* the mutants: the last unbound variable, the maximum value
LastUnbound(m, st) == SetMax(Pending(m, st))
MaxValue(st, v) == SetMax(st.dom[v])

\* INT_VAR_DEFAULT: the first unbound variable in declaration order
ChooseVar(m, st) == SetMin(Pending(m, st))
\* INT_VALUE_DEFAULT: its minimum value
ChooseValue(st, v) == SetMin(st.dom[v])

\* slv.Phase(x, INT_VAR_DEFAULT, INT_VALUE_DEFAULT): next(store)
DefaultPhase(m, st) ==
    IF Pending(m, st) = {} THEN NoDecision
    ELSE [var |-> ChooseVar(m, st), val |-> ChooseValue(st, ChooseVar(m, st))]

\* the mutants: a bound that does not move, a bound that skips a value, a
\* bound on the wrong side of the solution
NewBoundNoStep(z) == z
NewBoundStepTwo(z) == z - 2
NewBoundWrongSign(z) == z + 1

\* slv.Minimize(z, 1): after a solution of value z, the objective is to be
\* at most z - 1
NewBound(z) == z - 1

\* the constraints examined after a decision on v: those that reference v,
\* and the objective bound
AfterDecision(m, st, v) ==
    Reactivate(<<>>, m.cons, st.dom,
               {v} \cup {u \in DOMAIN st.dom : u = m.obj})

\* the mutant: an incomplete "no decision" is recovered by backtracking
OnNoDecisionRecover(m, st) ==
    IF Unbound(m, st) = {} THEN "SolutionFound" ELSE "Backtracking"

\* Branching, when the Decision Builder returns no decision: a solution if
\* every tracked variable is bound, else a modeling error
OnNoDecision(m, st) ==
    IF Unbound(m, st) = {} THEN "SolutionFound" ELSE "ModelError"

\* the mutant: a Choice Point keeps its alternative after it was taken
Untried(cp) == cp

\* a Choice Point whose second alternative has been taken has none left
Tried(cp) == [cp EXCEPT !.alts = 0]

\* the mutant: the last Choice Point, whether it has an alternative or not
NearestAny(stk) == Len(stk)

\* the nearest Choice Point with an untried alternative, 0 when there is none
Nearest(stk) ==
    IF \E k \in 1..Len(stk) : stk[k].alts > 0
    THEN SetMax({k \in 1..Len(stk) : stk[k].alts > 0})
    ELSE 0

\* a model of the family: two variables, the second with an explicit value
\* set, a few of the scripts' relations, and an objective or none
Objective(kind, z) ==
    CASE kind = "sum" -> SumIs(z)
      [] kind = "slack" -> Slack(z, SearchMaxVal)
      [] kind = "max1" -> Max1(z)

ZDomain(kind) ==
    IF kind = "max1" THEN 1..(SearchMaxVal + 1)
    ELSE 0..(SearchMaxVal + SearchMaxVal)

FamilyPool == <<Neq(1, 2), Far(1, 2), Gt(1, 2), Gt(2, 1)>>

RECURSIVE Select(_, _, _)
Select(sq, S, n) ==
    IF n > Len(sq) THEN <<>>
    ELSE (IF n \in S THEN <<sq[n]>> ELSE <<>>) \o Select(sq, S, n + 1)

FamilyModel(S, hole, kind) ==
    LET D == 0..SearchMaxVal
        cs == Select(FamilyPool, S, 1)
    IN IF kind = "none"
       THEN [doms |-> <<D, D \ {hole}>>, cons |-> cs, obj |-> 0]
       ELSE [doms |-> <<D, D \ {hole}, ZDomain(kind)>>,
             cons |-> cs \o <<Objective(kind, 3), Bound(3)>>, obj |-> 3]

\* two variables of domain {0,1,2}, x != y, no objective
ModelNeq == [doms |-> <<0..2, 0..2>>, cons |-> <<Neq(1, 2)>>, obj |-> 0]

\* three variables of domain {0,1}, minimize their sum
ModelSum ==
    [doms |-> <<0..1, 0..1, 0..1, 0..3>>,
     cons |-> <<SumIs(4), Bound(4)>>, obj |-> 4]

SearchModels ==
    {ModelNeq, ModelSum} \cup
    {FamilyModel(S, hole, kind) :
        S \in {T \in SUBSET (1..Len(FamilyPool)) : Cardinality(T) <= 2},
        hole \in (0..SearchMaxVal) \cup {-1},
        kind \in {"none", "sum", "max1", "slack"}}

\* stop_after as the scripts pass it: None, or a number of solutions
StopAfters == {None, 1, 2}

InitSearch ==
    /\ model \in SearchModels
    /\ store = NewStore(model.doms)
    /\ worklist = <<>>
    /\ bound = NoBound
    /\ state = "Root"
    /\ stack = <<>>
    /\ expired = FALSE
    /\ cfg \in [time_limit : BOOLEAN, stop_after : StopAfters,
                scope : {XVars(model)}]
    /\ zbest = None
    /\ xbest = <<>>
    /\ scnt = 0
    /\ sols = <<>>
    /\ report = NoReport
    /\ phase = "idle"
    /\ fixDom = NoSnap
    /\ snaps = <<>>
    /\ popped = NoPop
    /\ IdleLns
    /\ IdleTwin

SearchFrame == UNCHANGED <<model, cfg, propHist, trailHist, lns, twin>>

Terminal == {"Exhausted", "TimedOut", "Stopped"}

\* the states of a search aborted by an error surfaced to the caller
Fatal == {"ModelError"}

\* slv.NewSearch(db, search_monitors): the first propagation examines every
\* posted constraint
NewSearch ==
    /\ state = "Root"
    /\ state' = "Propagating"
    /\ worklist' = AllConstraints(model.cons)
    /\ UNCHANGED <<store, bound, stack, expired, zbest, xbest, scnt, sols, report>>

\* slv.TimeLimit(time_limit): the limit expires while the search runs
Expire ==
    /\ cfg.time_limit
    /\ ~expired
    /\ state \notin Terminal \cup Fatal
    /\ expired' = TRUE
    /\ UNCHANGED <<store, worklist, bound, state, stack, zbest, xbest, scnt, sols, report>>

Propagating ==
    /\ state = "Propagating"
    /\ IF expired
       THEN /\ state' = "TimedOut"
            /\ UNCHANGED <<store, worklist>>
       ELSE LET r == Fixpoint(store, worklist, model.cons, bound)
            IN /\ store' = r.store
               /\ worklist' = <<>>
               /\ state' = IF r.failed THEN "Backtracking"
                           ELSE IF Unbound(model, r.store) = {}
                                THEN "SolutionFound"
                                ELSE "Branching"
    /\ UNCHANGED <<bound, stack, expired, zbest, xbest, scnt, sols, report>>

Branching ==
    /\ state = "Branching"
    /\ IF expired
       THEN /\ state' = "TimedOut"
            /\ UNCHANGED <<store, worklist, stack>>
       ELSE LET d == DefaultPhase(model, store)
            IN IF d = NoDecision
               THEN /\ state' = OnNoDecision(model, store)
                    /\ UNCHANGED <<store, worklist, stack>>
               ELSE /\ store' = assign(pushMark(store), d.var, d.val)
                    /\ stack' = Append(stack, [var |-> d.var, val |-> d.val,
                                               alts |-> 1])
                    /\ worklist' = AfterDecision(model, store, d.var)
                    /\ state' = "Propagating"
    /\ UNCHANGED <<bound, expired, zbest, xbest, scnt, sols, report>>

Backtracking ==
    /\ state = "Backtracking"
    /\ LET k == Nearest(stack)
       IN IF k = 0
          THEN /\ state' = "Exhausted"
               /\ store' = IF store.marks = <<>> THEN store
                           ELSE popToMark(store, 1)
               /\ stack' = <<>>
               /\ UNCHANGED worklist
          ELSE /\ store' = removeValue(pushMark(popToMark(store, k)),
                                       stack[k].var, stack[k].val)
               /\ stack' = Append(SubSeq(stack, 1, k - 1),
                                  Tried(stack[k]))
               /\ worklist' = AfterDecision(model, store, stack[k].var)
               /\ state' = "Propagating"
    /\ UNCHANGED <<bound, expired, zbest, xbest, scnt, sols, report>>

\* the values of the decision variables in a store where they are bound
Snapshot(m, st) == [v \in XVars(m) |-> Value(st, v)]
ZValue(m, st) == IF m.obj = 0 THEN None ELSE Value(st, m.obj)

NoSolution == [z |-> None, x |-> <<>>]

\* the mutant: only the first solution is stored
RecordFirst(old, new) == IF old = NoSolution THEN new ELSE old

\* zbest = Z.Value(); sbest = ...: the last solution and its value replace
\* the stored ones
Record(old, new) == new

\* the mutant: no solution count makes the loop stop
StopNever(k, n) == FALSE

\* "if stop_after is not None and scnt >= stop_after: break"
StopRequested(k, n) == k # None /\ n >= k

\* the body of "while slv.NextSolution():": store the solution and its
\* value, count it, stop after stop_after solutions; otherwise the search
\* goes on under the new bound
SolutionFound ==
    /\ state = "SolutionFound"
    /\ zbest' = Record([z |-> zbest, x |-> xbest],
                       [z |-> ZValue(model, store),
                        x |-> Snapshot(model, store)]).z
    /\ xbest' = Record([z |-> zbest, x |-> xbest],
                       [z |-> ZValue(model, store),
                        x |-> Snapshot(model, store)]).x
    /\ sols' = Append(sols, [x |-> Snapshot(model, store),
                             z |-> ZValue(model, store)])
    /\ scnt' = scnt + 1
    /\ IF StopRequested(cfg.stop_after, scnt + 1)
       THEN /\ state' = "Stopped"
            /\ UNCHANGED bound
       ELSE /\ state' = "Backtracking"
            /\ bound' = IF model.obj = 0 THEN NoBound
                        ELSE NewBound(ZValue(model, store))
    /\ UNCHANGED <<store, worklist, stack, expired, report>>

\* the mutant: the test of zbest is inverted
StatsInverted(zb) ==
    IF zb # None THEN {"No solution found"} ELSE {"Best solution found"}

\* "if zbest == None: print No solution found, else: print Best solution
\* found: zbest"
Stats(zb) ==
    IF zb = None THEN {"No solution found"} ELSE {"Best solution found"}

\* slv.EndSearch() and the statistics printed after it.  The line "Time
\* limit exceeded" is printed when the wall time read after the search is
\* above the limit: always when no limit was given (every number is above
\* None), possibly when one was
EndSearch ==
    /\ state \in Terminal
    /\ report = NoReport
    /\ \E late \in BOOLEAN :
          /\ ~cfg.time_limit => late
          /\ report' = [lines |-> Stats(zbest) \cup
                                    (IF late THEN {"Time limit exceeded"}
                                     ELSE {}),
                        value |-> zbest]
    /\ UNCHANGED <<store, worklist, bound, state, stack, expired, zbest,
                   xbest, scnt, sols>>

NextSearch ==
    \/ NewSearch /\ SearchFrame
    \/ Expire /\ SearchFrame
    \/ Propagating /\ SearchFrame
    \/ Branching /\ SearchFrame
    \/ Backtracking /\ SearchFrame
    \/ SolutionFound /\ SearchFrame
    \/ EndSearch /\ SearchFrame

SpecSearch == InitSearch /\ [][NextSearch]_vars

\* searches whose Decision Builder is given the first k decision variables
\* of the model, for every k
ScopeModels == {ModelNeq, FamilyModel({1}, -1, "max1")}

InitScope ==
    /\ model \in ScopeModels
    /\ store = NewStore(model.doms)
    /\ worklist = <<>>
    /\ bound = NoBound
    /\ state = "Root"
    /\ stack = <<>>
    /\ expired = FALSE
    /\ cfg \in [time_limit : BOOLEAN, stop_after : {None, 1},
                scope : {1..k : k \in 0..Cardinality(XVars(model))}]
    /\ zbest = None
    /\ xbest = <<>>
    /\ scnt = 0
    /\ sols = <<>>
    /\ report = NoReport
    /\ phase = "idle"
    /\ fixDom = NoSnap
    /\ snaps = <<>>
    /\ popped = NoPop
    /\ IdleLns
    /\ IdleTwin

SpecScope == InitScope /\ [][NextSearch]_vars

\* weak fairness of the Propagating step, its enabling condition written
\* out: the step is enabled exactly in the state Propagating
PropagatingFair ==
    []<>(state # "Propagating") \/ []<><<Propagating /\ SearchFrame>>_vars

\* the script keeps asking for the next solution and the engine keeps
\* running until the search is over
SpecSearchFair ==
    /\ SpecSearch
    /\ WF_vars(NewSearch /\ SearchFrame)
    /\ PropagatingFair
    /\ WF_vars(Branching /\ SearchFrame)
    /\ WF_vars(Backtracking /\ SearchFrame)
    /\ WF_vars(SolutionFound /\ SearchFrame)
    /\ WF_vars(EndSearch /\ SearchFrame)


\* the full assignments that satisfy the posted constraints of a model
Feasible(m) ==
    {t \in [DOMAIN m.doms -> UNION {m.doms[v] : v \in DOMAIN m.doms}] :
        /\ \A v \in DOMAIN m.doms : t[v] \in m.doms[v]
        /\ \A k \in 1..Len(m.cons) :
              m.cons[k].kind # "bound" => Sat(m.cons[k], t, NoBound)}

LastSol == sols[Len(sols)]

\* C1: when a minimization search reaches Exhausted after a bound was
\* posted, the objective of the last recorded solution is at most the
\* objective of every full assignment satisfying the posted constraints.
Optimality ==
    (state = "Exhausted" /\ model.obj # 0 /\ sols # <<>>) =>
        /\ zbest = LastSol.z
        /\ \A t \in Feasible(model) : zbest <= t[model.obj]

\* an exhausted run that improved on its first solution
OptimalityWitness ==
    /\ state = "Exhausted"
    /\ model.obj # 0
    /\ Len(sols) >= 2
    /\ \A t \in Feasible(model) : zbest <= t[model.obj]
    /\ \E t \in Feasible(model) : zbest < t[model.obj]

\* C2: within one minimization run every SolutionFound event after the
\* first has an objective strictly smaller than that of the previous one.
BoundMonotone ==
    model.obj # 0 => \A n \in 2..Len(sols) : sols[n].z < sols[n - 1].z

\* a second solution was found after backtracking under the bound
BoundMonotoneWitness ==
    /\ model.obj # 0
    /\ Len(sols) >= 2
    /\ sols[2].z < sols[1].z
    /\ state = "Backtracking"

\* C6: with x, y of domain {0,1,2} and x != y, the default Decision Builder
\* finds (0,1) first, never yields a solution twice, and has enumerated
\* exactly 6 solutions when the search is Exhausted.
SixSolutions ==
    (model = ModelNeq /\ cfg.stop_after = None) =>
        /\ sols # <<>> => sols[1].x = <<0, 1>>
        /\ \A n, k \in 1..Len(sols) : n # k => sols[n].x # sols[k].x
        /\ \A n \in 1..Len(sols) : sols[n].x[1] # sols[n].x[2]
        /\ state = "Exhausted" => Len(sols) = 6

SixSolutionsWitness ==
    /\ model = ModelNeq
    /\ state = "Exhausted"
    /\ Len(sols) = 6
    /\ sols[1].x = <<0, 1>>

\* C7: with three variables of domain {0,1} and the objective "minimize the
\* sum", a Branch-and-Bound run that is not cut short by a time limit or a
\* solution count eventually ends Exhausted, and in Exhausted the last
\* recorded solution is (0,0,0) of value 0.
SumScenario ==
    /\ [](model = ModelSum =>
             /\ state = "Exhausted" => (zbest = 0 /\ xbest = <<0, 0, 0>>)
             /\ (cfg.stop_after = None /\ ~cfg.time_limit) =>
                   state \notin {"TimedOut", "Stopped"})
    /\ (model = ModelSum /\ cfg.stop_after = None /\ ~cfg.time_limit) =>
          <>(state = "Exhausted")

SumScenarioWitness ==
    /\ model = ModelSum
    /\ state = "Exhausted"
    /\ zbest = 0
    /\ xbest = <<0, 0, 0>>
    /\ bound = -1

\* C9: the statistics of a run that ended TimedOut after at least one
\* solution report its last solution as "Best solution found" and nothing
\* as optimal; no run is reported as optimal unless it ended Exhausted
\* after a bound was posted.
BestFoundNotOptimal ==
    (report # NoReport /\ model.obj # 0) =>
        /\ (state = "TimedOut" /\ sols # <<>>) =>
              /\ "Best solution found" \in report.lines
              /\ "No solution found" \notin report.lines
              /\ report.value = LastSol.z
        /\ "Optimal" \in report.lines =>
              (state = "Exhausted" /\ bound # NoBound)

\* a timed-out Branch-and-Bound run whose reported best is not the optimum
BestFoundNotOptimalWitness ==
    /\ report # NoReport
    /\ state = "TimedOut"
    /\ model.obj # 0
    /\ sols # <<>>
    /\ "Best solution found" \in report.lines
    /\ \E t \in Feasible(model) : t[model.obj] < report.value

\* C10: once the limit has expired, the next Propagating or Branching
\* transition ends the run in TimedOut without touching the recorded best
\* solution, which in TimedOut is the last solution found before the expiry.
TimedOutKeepsBest ==
    [][/\ (expired /\ state \in {"Propagating", "Branching"}) =>
             (state' = "TimedOut" /\ zbest' = zbest /\ xbest' = xbest
                 /\ sols' = sols)
       /\ (state' = "TimedOut" /\ sols' # <<>>) =>
             (zbest' = sols'[Len(sols')].z /\ xbest' = sols'[Len(sols')].x)
       /\ state' = "TimedOut" => expired]_vars

\* a run timed out after its second solution
TimedOutKeepsBestWitness ==
    /\ state = "TimedOut"
    /\ model.obj # 0
    /\ Len(sols) >= 2
    /\ zbest = LastSol.z
    /\ xbest = LastSol.x

(***************************************************************************)
(* The LNS process of wt.py: a first solution, then iterations that relax  *)
(* a random fragment of the activities, keep the others in the incumbent's *)
(* order, and call solve for one strictly better solution.                 *)
(***************************************************************************)
LnsNumActs == 3
MaxGlobalTime == 3
MaxLocalTime == 1

ActKinds ==
    {[dur |-> 1, dln |-> 1, wgt |-> 2], [dur |-> 2, dln |-> 2, wgt |-> 1]}

\* the sequences that order the elements of S
RECURSIVE Orders(_)
Orders(S) ==
    IF S = {} THEN {<<>>}
    ELSE UNION {{<<i>> \o q : q \in Orders(S \ {i})} : i \in S}

Perms(n) == Orders(1..n)

PosOf(sq, i) == CHOOSE k \in 1..Len(sq) : sq[k] = i
InSeq(sq, i) == \E k \in 1..Len(sq) : sq[k] = i

\* T[i] == max(end - dln, 0)
Tardiness(end, dln) == IF end - dln > 0 THEN end - dln ELSE 0

\* Z == ScalProd(T, wgt), the activities from position k on ending as the
\* forward set-times strategy schedules them: in the order of sq, without
\* idle time, the one at position k starting at time t
RECURSIVE CostFrom(_, _, _, _)
CostFrom(as, sq, k, t) ==
    IF k > Len(sq) THEN 0
    ELSE as[sq[k]].wgt * Tardiness(t + as[sq[k]].dur, as[sq[k]].dln)
             + CostFrom(as, sq, k + 1, t + as[sq[k]].dur)

Cost(as, sq) == CostFrom(as, sq, 1, 0)

\* the precedence constraints posted for preorder: each activity of the
\* sequence starts after the end of the one before it
PreorderConstraints(preorder) ==
    {<<preorder[k], preorder[k + 1]>> : k \in 1..(Len(preorder) - 1)}

Respects(sq, cons) == \A c \in cons : PosOf(sq, c[1]) < PosOf(sq, c[2])

\* the mutant: the cost constraint is not posted
BoundDropped(z, old_zbest) == TRUE

\* "if old_zbest is not None: slv.Add(Z < old_zbest)"
BoundOk(z, old_zbest) == old_zbest = None \/ z < old_zbest

\* the sequences solve can return: they satisfy the posted constraints
Candidates(as, preorder, old_zbest) ==
    {sq \in Perms(Len(as)) :
        /\ Respects(sq, PreorderConstraints(preorder))
        /\ BoundOk(Cost(as, sq), old_zbest)}

\* the mutant: one solver serves every call, its constraints accumulating
SolverKept(old) == old

\* "slv = pywrapcp.Solver('min-wt')": every call of solve builds its model
\* in a solver of its own, whatever an earlier call posted
Solver(old) == {}

\* the precedence constraints in force during a call of solve
Posted(old, preorder) == Solver(old) \cup PreorderConstraints(preorder)

\* the sequences that satisfy the constraints cons and the bound
CandidatesUnder(as, cons, old_zbest) ==
    {sq \in Perms(Len(as)) :
        Respects(sq, cons) /\ BoundOk(Cost(as, sq), old_zbest)}

\* the mutant: the draw stops one element early
RECURSIVE DrawsShort(_, _, _)
DrawsShort(L, R, size) ==
    IF Len(R) < size - 1 /\ Len(L) > 0
    THEN UNION {DrawsShort(SubSeq(L, 1, idx - 1) \o SubSeq(L, idx + 1, Len(L)),
                           Append(R, L[idx]), size) : idx \in 1..Len(L)}
    ELSE {R}

\* the mutant: the drawn element is not popped from L
RECURSIVE DrawsRepeat(_, _, _)
DrawsRepeat(L, R, size) ==
    IF Len(R) < size /\ Len(L) > 0
    THEN UNION {DrawsRepeat(L, Append(R, L[idx]), size) : idx \in 1..Len(L)}
    ELSE {R}

\* the loop of random_draw: while len(R) < size and len(L) > 0, move the
\* element at a random index of L to the end of R; every outcome of the
\* generator is possible
RECURSIVE Draws(_, _, _)
Draws(L, R, size) ==
    IF Len(R) < size /\ Len(L) > 0
    THEN UNION {Draws(SubSeq(L, 1, idx - 1) \o SubSeq(L, idx + 1, Len(L)),
                      Append(R, L[idx]), size) : idx \in 1..Len(L)}
    ELSE {R}

random_draw(L, size) == Draws(L, <<>>, size)

RECURSIVE Filter(_, _)
Filter(sq, drop) ==
    IF sq = <<>> THEN <<>>
    ELSE (IF InSeq(drop, Head(sq)) THEN <<>> ELSE <<Head(sq)>>)
             \o Filter(Tail(sq), drop)

\* the mutant: the relaxed activities are kept in the fixed part
PreorderAll(sbest, relaxed) == sbest

\* preorder = [i for i in sbest if i not in relaxed]
Preorder(sbest, relaxed) == Filter(sbest, relaxed)

\* the mutant: the elapsed time is returned as measured
TimeMeasured(t) == t

\* time = max(1, time)
TimeCap(t) == IF t < 1 THEN 1 ELSE t

MinCost(as) ==
    SetMin({Cost(as, sq) : sq \in Perms(Len(as))})

\* the instances: activities of the two kinds, those of the first kind
\* first, and the data file without activities
Instances ==
    {as \in [1..LnsNumActs -> ActKinds] :
        \A i \in 1..(LnsNumActs - 1) : as[i].dur <= as[i + 1].dur}
    \cup {<<>>}

\* the state after the first solve (no time limit, no bound, stop after one
\* solution); the data file's best known value is the optimum
InitLns ==
    /\ \E as \in Instances, t \in 0..MaxLocalTime :
       \E size \in 1..(Len(as) + 1), sq \in Perms(Len(as)) :
          lns = [pc |-> "loop",
                 acts |-> as,
                 neighborhood_size |-> size,
                 global_time_limit |-> MaxGlobalTime,
                 best |-> MinCost(as),
                 time |-> TimeCap(t),
                 zbest |-> Cost(as, sq),
                 sbest |-> sq,
                 cnt |-> 0,
                 relaxed |-> <<>>,
                 preorder |-> <<>>,
                 lz |-> None,
                 posted |-> {},
                 zprev |-> Cost(as, sq)]
    /\ store = NewStore(<<>>)
    /\ snaps = <<>>
    /\ popped = NoPop
    /\ IdleEngine
    /\ IdleSearch
    /\ IdleTwin

\* the mutant: the loop goes on when the limit is just reached
LoopCondLate(time, limit) == time <= limit

\* "while time < global_time_limit"
LoopCond(time, limit) == time < limit

\* the mutant: the known optimum does not stop the loop
NeverStop(z, best) == FALSE

\* "if zbest == data['best']: ... break"
EarlyStop(z, best) == z = best

\* "while time < global_time_limit:" choose the activities to relax and, by
\* consequence, those to keep in order
LnsDraw ==
    /\ lns.pc = "loop"
    /\ LoopCond(lns.time, lns.global_time_limit)
    /\ \E r \in random_draw([i \in 1..Len(lns.acts) |-> i],
                            lns.neighborhood_size) :
          lns' = [lns EXCEPT !.pc = "solve",
                             !.relaxed = r,
                             !.preorder = Preorder(lns.sbest, r)]

\* solve the subproblem and update the statistics and the incumbent; stop
\* early when the known optimum is found
LnsSolve ==
    /\ lns.pc = "solve"
    /\ \E t \in 0..MaxLocalTime,
          ls \in CandidatesUnder(lns.acts, Posted(lns.posted, lns.preorder),
                                 lns.zbest) \cup {<<>>} :
          LET lz == IF ls = <<>> THEN None ELSE Cost(lns.acts, ls)
              zb == IF lz # None THEN lz ELSE lns.zbest
          IN lns' = [lns EXCEPT !.cnt = @ + 1,
                                !.posted = Posted(@, lns.preorder),
                                !.time = @ + TimeCap(t),
                                !.lz = lz,
                                !.zprev = lns.zbest,
                                !.zbest = zb,
                                !.sbest = IF lz # None THEN ls ELSE @,
                                !.pc = IF EarlyStop(zb, lns.best) THEN "done"
                                       ELSE "loop"]

\* the loop condition fails: the global time limit is reached
LnsTimeUp ==
    /\ lns.pc = "loop"
    /\ ~LoopCond(lns.time, lns.global_time_limit)
    /\ lns' = [lns EXCEPT !.pc = "done"]

LnsFrame ==
    UNCHANGED <<store, model, worklist, bound, propHist, trailHist, searchVars,
                twin>>

NextLns ==
    \/ LnsDraw /\ LnsFrame
    \/ LnsSolve /\ LnsFrame
    \/ LnsTimeUp /\ LnsFrame

SpecLns == InitLns /\ [][NextLns]_vars

\* the script runs on: the loop goes from one statement to the next
SpecLnsFair == SpecLns /\ WF_vars(NextLns)

(***************************************************************************)
(* Two executions of wt.py on one data file.  The generator is the one of  *)
(* "random.Random(100)": its numbers are a function of its seed.  The      *)
(* wall clock is not the same in the two executions: each has its own      *)
(* elapsed times, and its own calls of solve that the local time limit     *)
(* ends before the first solution.                                         *)
(***************************************************************************)

Seed == 100

\* the mutant: the generator is seeded from the clock
RngSeedClock(clock) == clock

\* "rng = random.Random(100)": the state of the new generator
RngSeed(clock) == Seed % 31

\* the generator: its state after one number is taken
RngNext(g) == (3 * g + 1) % 31

\* "rand.randint(a, b)": a number of a..b, determined by the generator's state
randint(g, a, b) == a + (g % (b - a + 1))

\* the loop of random_draw with the generator g: [R, rng], the elements
\* drawn and the generator after the draw
RECURSIVE DrawSeeded(_, _, _, _)
DrawSeeded(L, R, size, g) ==
    IF Len(R) < size /\ Len(L) > 0
    THEN LET idx == randint(g, 1, Len(L))
         IN DrawSeeded(SubSeq(L, 1, idx - 1) \o SubSeq(L, idx + 1, Len(L)),
                       Append(R, L[idx]), size, RngNext(g))
    ELSE [R |-> R, rng |-> g]

\* the order of Python's lists of numbers
RECURSIVE LexLess(_, _)
LexLess(p, q) ==
    IF p = <<>> THEN q # <<>>
    ELSE IF q = <<>> THEN FALSE
    ELSE IF Head(p) # Head(q) THEN Head(p) < Head(q)
    ELSE LexLess(Tail(p), Tail(q))

\* solve with stop_after=1: the first solution of the search, which
\* explores the sequences in a fixed order, or None when there is none or
\* when the time limit ends the search before it (cut)
FirstSolution(C, cut) ==
    IF cut \/ C = {} THEN <<>>
    ELSE CHOOSE sq \in C : \A other \in C \ {sq} : LexLess(sq, other)

\* an execution after the first solve, started at the given clock value
NewRun(as, clock) ==
    LET sq == FirstSolution(CandidatesUnder(as, {}, None), FALSE)
    IN [pc |-> "loop",
        rng |-> RngSeed(clock),
        time |-> TimeCap(0),
        zbest |-> IF sq = <<>> THEN None ELSE Cost(as, sq),
        sbest |-> sq,
        cnt |-> 0,
        frags |-> <<>>,
        cuts |-> <<>>,
        found |-> <<>>]

\* one iteration of the loop in the execution r, solve taking the time t
LnsIteration(as, size, best, r, t, cut) ==
    LET d == DrawSeeded([i \in 1..Len(as) |-> i], <<>>, size, r.rng)
        preorder == Preorder(r.sbest, d.R)
        ls == FirstSolution(
                  CandidatesUnder(as, Posted({}, preorder), r.zbest), cut)
        lz == IF ls = <<>> THEN None ELSE Cost(as, ls)
        zb == IF lz # None THEN lz ELSE r.zbest
    IN [r EXCEPT !.rng = d.rng,
                 !.cnt = @ + 1,
                 !.time = @ + TimeCap(t),
                 !.zbest = zb,
                 !.sbest = IF lz # None THEN ls ELSE @,
                 !.frags = Append(@, d.R),
                 !.cuts = Append(@, cut),
                 !.found = Append(@, [lz |-> lz, ls |-> ls]),
                 !.pc = IF EarlyStop(zb, best) THEN "done" ELSE "loop"]

\* the data files of the two executions: the activities in any order
TwinInstances == [1..LnsNumActs -> ActKinds]

\* the two executions are started at different times of the day
InitTwin ==
    /\ \E as \in TwinInstances :
       \E size \in 1..(Len(as) + 1) :
          twin = [pc |-> "run",
                  acts |-> as,
                  neighborhood_size |-> size,
                  global_time_limit |-> MaxGlobalTime,
                  best |-> MinCost(as),
                  runs |-> <<NewRun(as, 0), NewRun(as, 1)>>]
    /\ store = NewStore(<<>>)
    /\ snaps = <<>>
    /\ popped = NoPop
    /\ IdleEngine
    /\ IdleSearch
    /\ IdleLns

\* one of the executions goes through an iteration of its loop
TwinIterate(i) ==
    /\ twin.pc = "run"
    /\ twin.runs[i].pc = "loop"
    /\ LoopCond(twin.runs[i].time, twin.global_time_limit)
    /\ \E t \in 0..MaxLocalTime, cut \in BOOLEAN :
          twin' = [twin EXCEPT !.runs[i] =
                      LnsIteration(twin.acts, twin.neighborhood_size,
                                   twin.best, @, t, cut)]

\* one of the executions leaves its loop at the global time limit
TwinTimeUp(i) ==
    /\ twin.pc = "run"
    /\ twin.runs[i].pc = "loop"
    /\ ~LoopCond(twin.runs[i].time, twin.global_time_limit)
    /\ twin' = [twin EXCEPT !.runs[i].pc = "done"]

TwinFrame ==
    UNCHANGED <<store, model, worklist, bound, propHist, trailHist, searchVars,
                lns>>

NextTwin ==
    \/ (\E i \in 1..2 : TwinIterate(i)) /\ TwinFrame
    \/ (\E i \in 1..2 : TwinTimeUp(i)) /\ TwinFrame

SpecTwin == InitTwin /\ [][NextTwin]_vars

(***************************************************************************)
(* The Decision Builders of lotsizing.py on the successor variables.  The  *)
(* units are numbered from 0 and the fake last unit is nu, as in the       *)
(* script; store.dom[i] is the domain of succ[i].  The builders are called *)
(* on domains at the fixpoint of the Circuit constraint.                   *)
(***************************************************************************)

NumUnits == 4

\* the transition costs between types: three shapes of table
Tcost(shape, a, b) ==
    CASE shape = "near" -> (IF a < b THEN b - a ELSE a - b)
      [] shape = "far" ->
            (IF a = b THEN 0
             ELSE NumUnits - (IF a < b THEN b - a ELSE a - b))
      [] shape = "skew" -> (b - a + NumUnits) % NumUnits

\* the data file: every unit of a type of its own
Lots == {[nu |-> NumUnits, flat_types |-> [i \in 1..NumUnits |-> i],
          shape |-> sh] : sh \in {"near", "far", "skew"}}

\* ext_tcosts: the unit-to-unit costs, one more column of zeros for the
\* transitions to the fake unit and one more row of zeros for the fake unit;
\* a list of lists, ext_tcosts[i][j] at [i + 1][j + 1]
ExtTcosts(data) ==
    [i \in 1..(data.nu + 1) |->
        [j \in 1..(data.nu + 1) |->
            IF i > data.nu \/ j > data.nu THEN 0
            ELSE Tcost(data.shape, data.flat_types[i], data.flat_types[j])]]

\* succ[i] ranges over 0..nu, succ[i] != i
SuccDomains(nu) == [i \in 0..nu |-> (0..nu) \ {i}]

\* the unit reached from s through k bound successor variables, or None
RECURSIVE Hops(_, _, _)
Hops(dom, s, k) ==
    IF k = 0 THEN s
    ELSE IF Cardinality(dom[s]) = 1
         THEN Hops(dom, CHOOSE x \in dom[s] : TRUE, k - 1)
         ELSE None

\* slv.Circuit(succ), one round: no two units have the same successor and
\* no path of fewer than all the units is closed into a cycle
CircuitStep(dom) ==
    LET n == Cardinality(DOMAIN dom)
    IN [e \in DOMAIN dom |->
           {x \in dom[e] :
               /\ \A j \in (DOMAIN dom) \ {e} : dom[j] # {x}
               /\ \A k \in 0..(n - 2) : Hops(dom, x, k) # e}]

Failed(dom) == \E e \in DOMAIN dom : dom[e] = {}

RECURSIVE CircuitFix(_)
CircuitFix(dom) ==
    LET next == CircuitStep(dom)
    IN IF next = dom \/ Failed(next) THEN next ELSE CircuitFix(next)

\* the mutant: the bound variables are listed too
RECURSIVE IdxAll(_, _, _)
IdxAll(st, i, nu) ==
    IF i > nu THEN <<>> ELSE <<i>> \o IdxAll(st, i + 1, nu)

\* "[i for i in range(nu+1) if not self.succ[i].Bound()]", from i on
RECURSIVE Idx(_, _, _)
Idx(st, i, nu) ==
    IF i > nu THEN <<>>
    ELSE (IF IsBound(st, i) THEN <<>> ELSE <<i>>) \o Idx(st, i + 1, nu)

\* PreferBoundVars: idx1, the successors of the bound variables that are
\* themselves not bound, in the order of the bound variables
RECURSIVE Idx1(_, _, _)
Idx1(st, i, nu) ==
    IF i > nu THEN <<>>
    ELSE (IF IsBound(st, i) /\ ~IsBound(st, Value(st, i))
          THEN <<Value(st, i)>> ELSE <<>>) \o Idx1(st, i + 1, nu)

\* the mutant: the last of the variables with the smallest domain
RECURSIVE SmallestLast(_, _, _, _)
SmallestLast(st, cands, tgt, tgt_size) ==
    IF cands = <<>> THEN tgt
    ELSE LET i == Head(cands)
             cur_size == Cardinality(st.dom[i])
         IN IF tgt = None \/ cur_size <= tgt_size
            THEN SmallestLast(st, Tail(cands), i, cur_size)
            ELSE SmallestLast(st, Tail(cands), tgt, tgt_size)

\* "for i in idx: cur_size = self.succ[i].Size(); if tgt is None or
\* (cur_size < tgt_size): tgt = i; tgt_size = cur_size"
RECURSIVE Smallest(_, _, _, _)
Smallest(st, cands, tgt, tgt_size) ==
    IF cands = <<>> THEN tgt
    ELSE LET i == Head(cands)
             cur_size == Cardinality(st.dom[i])
         IN IF tgt = None \/ cur_size < tgt_size
            THEN Smallest(st, Tail(cands), i, cur_size)
            ELSE Smallest(st, Tail(cands), tgt, tgt_size)

\* "for k in range(var.Min(), var.Max()+1): if var.Contains(k):
\* cur_cost = self.ext_tcosts[k]; if val is None or cur_cost < val_tcost:
\* val = k; val_tcost = cur_cost": the costs compared are rows of the table
RECURSIVE Cheapest(_, _, _, _, _)
Cheapest(T, D, k, val, val_tcost) ==
    IF k > SetMax(D) THEN val
    ELSE IF k \in D /\ (val = None \/ LexLess(T[k + 1], val_tcost))
         THEN Cheapest(T, D, k + 1, k, T[k + 1])
         ELSE Cheapest(T, D, k + 1, val, val_tcost)

\* db1 = slv.Phase(succ, CHOOSE_MIN_SIZE, ASSIGN_MIN_VALUE)
MinSizePhase(data, st) ==
    LET idx == Idx(st, 0, data.nu)
    IN IF idx = <<>> THEN NoDecision
       ELSE LET tgt == Smallest(st, idx, None, None)
            IN [var |-> tgt, val |-> SetMin(st.dom[tgt])]

\* SetSuccByCost.Next
SetSuccByCost(data, st) ==
    LET idx == Idx(st, 0, data.nu)
    IN IF Len(idx) = 0 THEN NoDecision
       ELSE LET tgt == Smallest(st, idx, None, None)
            IN [var |-> tgt,
                val |-> Cheapest(ExtTcosts(data), st.dom[tgt],
                                 SetMin(st.dom[tgt]), None, <<>>)]

\* PreferBoundVars.Next
PreferBoundVars(data, st) ==
    LET idx1 == Idx1(st, 0, data.nu)
        idx2 == Idx(st, 0, data.nu)
        candidates == IF Len(idx1) > 0 THEN idx1 ELSE idx2
    IN IF Len(idx1) = 0 /\ Len(idx2) = 0 THEN NoDecision
       ELSE LET tgt == Smallest(st, candidates, None, None)
            IN [var |-> tgt, val |-> SetMin(st.dom[tgt])]

\* the units in increasing order of the key, a unit before those of the same
\* key and a higher index: "sorted(range(len(self.date)), key=...)"
RECURSIVE SortedBy(_, _)
SortedBy(S, key) ==
    IF S = {} THEN <<>>
    ELSE LET i == CHOOSE x \in S :
                     \A y \in S \ {x} :
                         key[x] < key[y] \/ (key[x] = key[y] /\ x < y)
         IN <<i>> \o SortedBy(S \ {i}, key)

\* "for k, i in enumerate(idx): if not self.succ[i].Bound(): ... break":
\* the position, from 0, of the first unit of idx with an unbound successor
\* variable, or None
RECURSIVE FirstUnboundPos(_, _, _)
FirstUnboundPos(st, idx, k) ==
    IF k >= Len(idx) THEN None
    ELSE IF ~IsBound(st, idx[k + 1]) THEN k
    ELSE FirstUnboundPos(st, idx, k + 1)

\* the call ends with an IndexError instead of a decision
IndexError == [var |-> None, val |-> None]

\* SetSuccBasedOnDates.Next, the date variables bound to data.date; idx[k]
\* of the script is idx[k + 1] here
SetSuccBasedOnDates(data, st) ==
    LET idx == SortedBy(DOMAIN data.date, data.date)
        target_pos == FirstUnboundPos(st, idx, 0)
    IN IF target_pos = None THEN NoDecision
       ELSE LET target == idx[target_pos + 1]
            IN IF target_pos = Len(idx) THEN [var |-> target, val |-> idx[1]]
               ELSE IF target_pos + 1 < Len(idx)
                    THEN [var |-> target, val |-> idx[target_pos + 2]]
                    ELSE IndexError

Builders == {"db1", "db5", "db6"}

NextOf(b, data, st) ==
    CASE b = "db1" -> MinSizePhase(data, st)
      [] b = "db3" -> SetSuccBasedOnDates(data, st)
      [] b = "db5" -> SetSuccByCost(data, st)
      [] b = "db6" -> PreferBoundVars(data, st)

\* the model of the script before the search: the successor variables
\* under the Circuit constraint; stack holds the last decision, with the
\* domains the builder was called on
InitBuild ==
    /\ model \in Lots
    /\ store = NewStore(CircuitFix(SuccDomains(model.nu)))
    /\ stack = <<>>
    /\ state = "Build"
    /\ expired = FALSE
    /\ cfg = [time_limit |-> FALSE, stop_after |-> None, scope |-> {}]
    /\ zbest = None
    /\ xbest = <<>>
    /\ scnt = 0
    /\ sols = <<>>
    /\ report = NoReport
    /\ worklist = <<>>
    /\ bound = NoBound
    /\ phase = "idle"
    /\ fixDom = NoSnap
    /\ snaps = <<>>
    /\ popped = NoPop
    /\ IdleLns
    /\ IdleTwin

\* the builder b is asked for a decision, which is applied and propagated
Decide(b) ==
    /\ state = "Build"
    /\ LET d == NextOf(b, model, store)
       IN /\ d # NoDecision
          /\ LET after == CircuitFix(assign(store, d.var, d.val).dom)
             IN /\ ~Failed(after)
                /\ store' = NewStore(after)
                /\ stack' = <<[by |-> b, var |-> d.var, val |-> d.val,
                               before |-> store]>>

\* the last decision is refuted on backtrack: the domains are those it was
\* taken on, without its value
Refute ==
    /\ state = "Build"
    /\ stack # <<>>
    /\ LET d == stack[1]
           after == CircuitFix(removeValue(d.before, d.var, d.val).dom)
       IN /\ ~Failed(after)
          /\ store' = NewStore(after)
          /\ stack' = <<>>

BuildFrame ==
    UNCHANGED <<model, worklist, bound, propHist, trailHist, state, expired,
                cfg, zbest, xbest, scnt, sols, report, lns, twin>>

NextBuild ==
    \/ Decide("db1") /\ BuildFrame
    \/ Decide("db5") /\ BuildFrame
    \/ Decide("db6") /\ BuildFrame
    \/ Refute /\ BuildFrame

SpecBuild == InitBuild /\ [][NextBuild]_vars

(***************************************************************************)
(* The successor builders once the date variables are bound.  How much the *)
(* Circuit constraint removes from the domains is the engine's: a          *)
(* propagator has to be sound and to fail on a violated constraint, no     *)
(* more.  The builders are called on the domains left by the propagator    *)
(* that removes what CircuitFix removes ("circuit") and on those left by   *)
(* the one that only fails on bound variables ("check").                   *)
(***************************************************************************)

\* the dates of the units, all different, the fake unit at the last period:
\* in the order of the units, in the opposite order, and rotated
DateOrders(nu) ==
    {[i \in 0..nu |-> IF i = nu THEN nu ELSE i],
     [i \in 0..nu |-> IF i = nu THEN nu ELSE nu - 1 - i],
     [i \in 0..nu |-> IF i = nu THEN nu ELSE (i + 1) % nu]}

Strengths == {"circuit", "check"}

ChainLots ==
    {[nu |-> NumUnits, flat_types |-> [i \in 1..NumUnits |-> i],
      shape |-> "near", date |-> d, strength |-> g] :
        d \in DateOrders(NumUnits), g \in Strengths}

\* a constraint of the model is violated by the bound successor variables:
\* two units with the same successor, a cycle of fewer than all the units,
\* or "date[i] < slv.Element(date, succ[i])" for a real unit i
Violated(data, dom) ==
    LET n == Cardinality(DOMAIN dom)
        IsB(i) == Cardinality(dom[i]) = 1
        V(i) == CHOOSE x \in dom[i] : TRUE
    IN \/ \E i, j \in DOMAIN dom : i # j /\ IsB(i) /\ IsB(j) /\ V(i) = V(j)
       \/ \E i \in DOMAIN dom, k \in 1..(n - 1) : Hops(dom, i, k) = i
       \/ \E i \in (DOMAIN dom) \ {data.nu} :
             IsB(i) /\ ~(data.date[i] < data.date[V(i)])

\* the domains after propagation
Propagated(data, dom) ==
    IF data.strength = "circuit" THEN CircuitFix(dom) ELSE dom

SuccBuilders == {"db3", "db5", "db6"}

InitChain ==
    /\ model \in ChainLots
    /\ store = NewStore(Propagated(model, SuccDomains(model.nu)))
    /\ stack = <<>>
    /\ state = "Build"
    /\ expired = FALSE
    /\ cfg = [time_limit |-> FALSE, stop_after |-> None, scope |-> {}]
    /\ zbest = None
    /\ xbest = <<>>
    /\ scnt = 0
    /\ sols = <<>>
    /\ report = NoReport
    /\ worklist = <<>>
    /\ bound = NoBound
    /\ phase = "idle"
    /\ fixDom = NoSnap
    /\ snaps = <<>>
    /\ popped = NoPop
    /\ IdleLns
    /\ IdleTwin

\* the builder b returns a decision, which is applied and propagated
ChainDecide(b) ==
    /\ state = "Build"
    /\ LET d == NextOf(b, model, store)
       IN /\ d # NoDecision
          /\ d # IndexError
          /\ LET after == Propagated(model, assign(store, d.var, d.val).dom)
             IN /\ ~Failed(after)
                /\ ~Violated(model, after)
                /\ store' = NewStore(after)
                /\ stack' = <<[by |-> b, var |-> d.var, val |-> d.val,
                               before |-> store]>>
    /\ UNCHANGED state

\* the last decision, if it has a second alternative, is refuted on
\* backtrack (AssignVariableValueOrFail has none)
ChainRefute ==
    /\ state = "Build"
    /\ stack # <<>>
    /\ stack[1].by # "db3"
    /\ LET d == stack[1]
           after == Propagated(model, removeValue(d.before, d.var, d.val).dom)
       IN /\ ~Failed(after)
          /\ ~Violated(model, after)
          /\ store' = NewStore(after)
          /\ stack' = <<>>
    /\ UNCHANGED state

\* the call of Next raises: the script ends with the exception
ChainRaise ==
    /\ state = "Build"
    /\ \E b \in SuccBuilders : NextOf(b, model, store) = IndexError
    /\ state' = "IndexError"
    /\ UNCHANGED <<store, stack>>

ChainFrame ==
    UNCHANGED <<model, worklist, bound, propHist, trailHist, expired,
                cfg, zbest, xbest, scnt, sols, report, lns, twin>>

NextChain ==
    \/ (\E b \in SuccBuilders : ChainDecide(b)) /\ ChainFrame
    \/ ChainRefute /\ ChainFrame
    \/ ChainRaise /\ ChainFrame

SpecChain == InitChain /\ [][NextChain]_vars

(***************************************************************************)
(* SetDatesBasedOnSucc, called on successor variables bound to a circuit.  *)
(* The date variables are the state; the linking constraints are           *)
(* propagated on their bounds ("bounds") or only checked ("check").        *)
(***************************************************************************)
DateUnits == 3
NumPeriods == 4

RECURSIVE Iter(_, _, _)
Iter(f, s, k) == IF k = 0 THEN s ELSE Iter(f, f[s], k - 1)

\* the values of succ accepted by slv.Circuit(succ): one cycle through all
\* the units, the fake unit nu included
Circuits(nu) ==
    {f \in [0..nu -> 0..nu] :
        /\ \A i, j \in 0..nu : i # j => f[i] # f[j]
        /\ \A k \in 1..nu : Iter(f, nu, k) # nu}

DateStrengths == {"bounds", "check"}

DateLots ==
    {[nu |-> DateUnits, np |-> NumPeriods, succ |-> f, flat_dlines |-> dl,
      strength |-> g] :
        f \in Circuits(DateUnits),
        dl \in [0..(DateUnits - 1) -> {NumPeriods - 2, NumPeriods - 1}],
        g \in DateStrengths}

\* date[i] in 0..np, date[i] <= flat_dlines[i], date[nu] == np
DateDomains(data) ==
    [i \in 0..data.nu |->
        IF i = data.nu THEN {data.np} ELSE 0..data.flat_dlines[i]]

\* one round on the bounds: date[i] < date[succ[i]] for the real units, and
\* AllDifferent(date) on the bound dates
DateStep(data, dom) ==
    [i \in DOMAIN dom |->
        {x \in dom[i] :
            /\ i # data.nu => x < SetMax(dom[data.succ[i]])
            /\ \A j \in (DOMAIN dom) \ {data.nu} :
                  data.succ[j] = i => x > SetMin(dom[j])
            /\ \A j \in (DOMAIN dom) \ {i} : dom[j] # {x}}]

RECURSIVE DateFix(_, _)
DateFix(data, dom) ==
    IF Failed(dom) THEN dom
    ELSE LET nd == DateStep(data, dom)
         IN IF nd = dom THEN dom ELSE DateFix(data, nd)

\* a linking constraint is violated by bound date variables
DateViolated(data, dom) ==
    LET IsB(i) == Cardinality(dom[i]) = 1
        V(i) == CHOOSE x \in dom[i] : TRUE
    IN \/ \E i, j \in DOMAIN dom : i # j /\ IsB(i) /\ IsB(j) /\ V(i) = V(j)
       \/ \E i \in (DOMAIN dom) \ {data.nu} :
             IsB(i) /\ IsB(data.succ[i]) /\ ~(V(i) < V(data.succ[i]))

DatePropagated(data, dom) ==
    IF data.strength = "bounds" THEN DateFix(data, dom) ELSE dom

\* "while self.succ[current].Value() != nu: current = ...; Q.append(current)"
RECURSIVE Chain(_, _, _)
Chain(succ, current, nu) ==
    IF succ[current] = nu THEN <<>>
    ELSE <<succ[current]>> \o Chain(succ, succ[current], nu)

\* the mutant: the chain is processed from its start
Forward(sq) == sq

\* reversed(Q)
Reversed(sq) == [k \in 1..Len(sq) |-> sq[Len(sq) + 1 - k]]

\* "for i in reversed(Q): if not self.date[i].Bound(): return
\* slv.AssignVariableValueOrFail(self.date[i], self.date[i].Max())", and
\* None after the loop
RECURSIVE AssignFirstUnbound(_, _)
AssignFirstUnbound(st, q) ==
    IF q = <<>> THEN NoDecision
    ELSE IF ~IsBound(st, Head(q))
         THEN [var |-> Head(q), val |-> SetMax(st.dom[Head(q)])]
         ELSE AssignFirstUnbound(st, Tail(q))

\* SetDatesBasedOnSucc.Next, the succ variables bound to data.succ
SetDatesBasedOnSucc(data, st) ==
    AssignFirstUnbound(st, Reversed(Chain(data.succ, data.nu, data.nu)))

InitDates ==
    /\ model \in DateLots
    /\ store = NewStore(DatePropagated(model, DateDomains(model)))
    /\ stack = <<>>
    /\ state = "Dates"
    /\ expired = FALSE
    /\ cfg = [time_limit |-> FALSE, stop_after |-> None, scope |-> {}]
    /\ zbest = None
    /\ xbest = <<>>
    /\ scnt = 0
    /\ sols = <<>>
    /\ report = NoReport
    /\ worklist = <<>>
    /\ bound = NoBound
    /\ phase = "idle"
    /\ fixDom = NoSnap
    /\ snaps = <<>>
    /\ popped = NoPop
    /\ IdleLns
    /\ IdleTwin

\* the decision of the builder is applied and propagated
DatesDecide ==
    /\ state = "Dates"
    /\ LET d == SetDatesBasedOnSucc(model, store)
       IN /\ d # NoDecision
          /\ LET after == DatePropagated(model,
                                         assign(store, d.var, d.val).dom)
             IN IF Failed(after) \/ DateViolated(model, after)
                THEN /\ state' = "Failed"
                     /\ UNCHANGED <<store, stack>>
                ELSE /\ store' = NewStore(after)
                     /\ stack' = Append(stack, [var |-> d.var, val |-> d.val,
                                                before |-> store])
                     /\ UNCHANGED state

\* the builder returns None: every date of the chain is bound
DatesDone ==
    /\ state = "Dates"
    /\ SetDatesBasedOnSucc(model, store) = NoDecision
    /\ state' = "Done"
    /\ UNCHANGED <<store, stack>>

DatesFrame ==
    UNCHANGED <<model, worklist, bound, propHist, trailHist, expired,
                cfg, zbest, xbest, scnt, sols, report, lns, twin>>

NextDates ==
    \/ DatesDecide /\ DatesFrame
    \/ DatesDone /\ DatesFrame

SpecDates == InitDates /\ [][NextDates]_vars

\* C3: after every LNS iteration the incumbent's objective value zbest is
\* at most its value before the iteration, and it changes only to the value
\* the inner solve returned.
LnsNonRegression ==
    (lns.pc # "idle" /\ lns.cnt >= 1) =>
        /\ lns.zbest <= lns.zprev
        /\ lns.zbest = (IF lns.lz = None THEN lns.zprev ELSE lns.lz)

\* an iteration improved the incumbent after one that did not
LnsNonRegressionWitness ==
    /\ lns.pc # "idle"
    /\ lns.cnt >= 2
    /\ lns.lz # None
    /\ lns.zbest < lns.zprev
    /\ Len(lns.preorder) >= 2

\* C8: an iteration whose neighborhood size is at least the number of
\* activities relaxes every activity, fixes none and posts no precedence
\* constraint, so that solve can return exactly the sequences a full
\* re-solve under the same bound can return.
FullNeighborhood ==
    (lns.pc = "solve" /\ lns.neighborhood_size >= Len(lns.acts)) =>
        /\ \A i \in 1..Len(lns.acts) : InSeq(lns.relaxed, i)
        /\ Len(lns.relaxed) = Len(lns.acts)
        /\ lns.preorder = <<>>
        /\ PreorderConstraints(lns.preorder) = {}
        /\ Candidates(lns.acts, lns.preorder, lns.zbest)
              = {sq \in Perms(Len(lns.acts)) :
                    Cost(lns.acts, sq) < lns.zbest}

\* a full-neighborhood iteration with a strictly better sequence to find
FullNeighborhoodWitness ==
    /\ lns.pc = "solve"
    /\ lns.neighborhood_size = Len(lns.acts)
    /\ lns.cnt >= 1
    /\ lns.preorder = <<>>
    /\ Candidates(lns.acts, lns.preorder, lns.zbest) # {}

\* C11: an LNS iteration whose inner solve returns no solution (it failed or
\* timed out) leaves the incumbent's value and sequence and the activities
\* unchanged, and the constraints it worked under were only its own: nothing
\* an earlier iteration fixed is still in force.
LnsFailureFrame ==
    [][lns.pc = "solve" =>
          /\ lns'.posted = PreorderConstraints(lns.preorder)
          /\ lns'.acts = lns.acts
          /\ lns'.lz = None =>
                (lns'.zbest = lns.zbest /\ lns'.sbest = lns.sbest)]_vars

\* a failed iteration that kept some activities in order, after an earlier
\* iteration
LnsFailureFrameWitness ==
    /\ lns.pc = "loop"
    /\ lns.cnt >= 2
    /\ lns.lz = None
    /\ lns.zbest = lns.zprev
    /\ lns.posted # {}

\* C12: the LNS loop ends when and only when its budget, the global time
\* limit, is reached or the incumbent equals the known best value; it does
\* end; and an iteration that fails to improve does not by itself end it.
LnsTermination ==
    /\ [](lns.pc = "done" =>
             \/ lns.time >= lns.global_time_limit
             \/ lns.zbest = lns.best)
    /\ [][/\ (lns.pc = "loop" /\ lns.time >= lns.global_time_limit) =>
                lns'.pc = "done"
          /\ (lns.pc = "loop" /\ lns.time < lns.global_time_limit) =>
                lns'.pc = "solve"
          /\ (lns.pc = "solve" /\ lns'.zbest = lns.best) => lns'.pc = "done"
          /\ (lns.pc = "solve" /\ lns'.zbest # lns.best) =>
                lns'.pc = "loop"]_vars
    /\ <>(lns.pc = "done")

\* the loop ended on the time limit after a failed iteration, the incumbent
\* above the known best value
LnsTerminationWitness ==
    /\ lns.pc = "done"
    /\ lns.cnt >= 2
    /\ lns.lz = None
    /\ lns.zbest # lns.best
    /\ lns.time >= lns.global_time_limit

Min2(a, b) == IF a < b THEN a ELSE b

\* C13: every fragment random_draw returns holds no index twice, holds only
\* indices of activities, and has min(neighborhood size, number of
\* activities) elements, hence never more than the neighborhood size.
FragmentDrawn ==
    lns.pc = "solve" =>
        /\ \A a, b \in 1..Len(lns.relaxed) :
              a # b => lns.relaxed[a] # lns.relaxed[b]
        /\ \A a \in 1..Len(lns.relaxed) : lns.relaxed[a] \in 1..Len(lns.acts)
        /\ Len(lns.relaxed) = Min2(lns.neighborhood_size, Len(lns.acts))
        /\ Len(lns.relaxed) <= lns.neighborhood_size

\* a fragment of two activities out of more, not in index order
FragmentDrawnWitness ==
    /\ lns.pc = "solve"
    /\ lns.neighborhood_size = 2
    /\ Len(lns.acts) > 2
    /\ Len(lns.relaxed) = 2
    /\ lns.relaxed[1] > lns.relaxed[2]

\* C14: with an empty set of activities fragment selection fails and the
\* failure ends the LNS loop: no iteration is run with an empty fragment
\* drawn from an empty universe.
NoIterationOnEmptyUniverse ==
    ~(lns.pc = "solve" /\ Len(lns.acts) = 0 /\ lns.relaxed = <<>>)

\* C15: assign(var, value) leaves the singleton {value} when the domain holds
\* value and an empty domain (DomainEmpty) when it does not; in both cases
\* the domain it found is pushed onto the trail and no other domain changes,
\* and popping to a mark taken before a failed assign leaves no empty domain.
AssignContract ==
    [][/\ \A v \in Vars, val \in Values :
             store' = assign(store, v, val) =>
                /\ val \in store.dom[v] => store'.dom[v] = {val}
                /\ val \notin store.dom[v] =>
                      (store'.dom[v] = {} /\ DomainEmpty(store'))
                /\ store'.trail = Append(store.trail, <<v, store.dom[v]>>)
                /\ \A w \in Vars \ {v} : store'.dom[w] = store.dom[w]
                /\ store'.marks = store.marks
       /\ (DomainEmpty(store) /\ Len(store'.marks) < Len(store.marks)) =>
             (~DomainEmpty(store') /\ store'.dom = popped'.snap)]_vars

\* a variable bound above a mark was assigned another value: its domain is
\* empty and the singleton it held is the last entry of the trail
AssignContractWitness ==
    /\ DomainEmpty(store)
    /\ store.marks # <<>>
    /\ Len(store.trail) >= 2
    /\ LET e == store.trail[Len(store.trail)]
       IN /\ store.dom[e[1]] = {}
          /\ Cardinality(e[2]) = 1
          /\ store.marks[Len(store.marks)] < Len(store.trail) - 1

\* C16: when the Decision Builder returns no decision in Branching, the
\* driver goes to SolutionFound if every tracked variable is bound and to
\* ModelError otherwise; ModelError is final: the search does not backtrack
\* out of it, records nothing more and the store stays as it was.
NoDecisionHandling ==
    [][/\ (state = "Branching" /\ ~expired /\ ~expired'
             /\ \A v \in cfg.scope \cap XVars(model) : IsBound(store, v)) =>
             /\ (\A v \in XVars(model) : IsBound(store, v)) =>
                   state' = "SolutionFound"
             /\ (\E v \in XVars(model) : ~IsBound(store, v)) =>
                   (state' = "ModelError" /\ store' = store /\ stack' = stack)
       /\ state = "ModelError" =>
             (state' = "ModelError" /\ store' = store /\ sols' = sols
                 /\ zbest' = zbest /\ report' = report)]_vars

\* the builder had only the first variable: after its decision the second
\* is unbound and the search is aborted with a choice point still open
NoDecisionHandlingWitness ==
    /\ state = "ModelError"
    /\ cfg.scope = {1}
    /\ IsBound(store, 1)
    /\ \E v \in XVars(model) : ~IsBound(store, v)
    /\ Nearest(stack) > 0

DefaultBuilder ==
    [][/\ (state = "Branching" /\ state' = "Propagating") =>
             LET top == stack'[Len(stack')]
             IN /\ Len(stack') = Len(stack) + 1
                /\ SubSeq(stack', 1, Len(stack)) = stack
                /\ top.var \in XVars(model)
                /\ ~IsBound(store, top.var)
                /\ \A u \in XVars(model) : u < top.var => IsBound(store, u)
                /\ top.val \in store.dom[top.var]
                /\ \A x \in store.dom[top.var] : top.val <= x
                /\ top.alts = 1
                /\ store'.dom = [store.dom EXCEPT ![top.var] = {top.val}]
       /\ (state = "Backtracking" /\ state' = "Propagating") =>
             LET k == Len(stack')
                 was == popToMark(store, k).dom
             IN /\ k \in 1..Len(stack)
                /\ stack[k].alts = 1
                /\ \A j \in (k + 1)..Len(stack) : stack[j].alts = 0
                /\ stack'[k] = [stack[k] EXCEPT !.alts = 0]
                /\ SubSeq(stack', 1, k - 1) = SubSeq(stack, 1, k - 1)
                /\ stack[k].val \in was[stack[k].var]
                /\ store'.dom =
                      [was EXCEPT ![stack[k].var] = @ \ {stack[k].val}]]_vars

\* the second alternative of a Choice Point on the second variable is being
\* propagated: the first variable is bound, the second has lost the minimum
\* it had at the choice
DefaultBuilderWitness ==
    /\ state = "Propagating"
    /\ Len(stack) = 2
    /\ stack[1].var = 1
    /\ stack[2].var = 2
    /\ stack[2].alts = 0
    /\ IsBound(store, 1)
    /\ ~IsBound(store, 2)
    /\ \A x \in store.dom[2] : stack[2].val < x

\* the unbound variables with the fewest values
Fewest(st, C) ==
    {v \in C : \A u \in C : Cardinality(st.dom[v]) <= Cardinality(st.dom[u])}

UnboundSucc(st) == {v \in DOMAIN st.dom : ~IsBound(st, v)}

\* C19, as stated: every decision of a smallest-domain builder (the phase
\* db1, PreferBoundVars) is on the earliest, in declaration order, of the
\* unbound variables with the fewest values, and assigns its minimum.
SmallestDomainFirst ==
    \A k \in 1..Len(stack) :
        LET d == stack[k]
            st == d.before
        IN (state = "Build" /\ d.by \in {"db1", "db6"}) =>
              /\ d.var = SetMin(Fewest(st, UnboundSucc(st)))
              /\ d.val = SetMin(st.dom[d.var])

\* the successors of the bound variables that are not bound themselves
Targets(st) ==
    {Value(st, i) : i \in {j \in DOMAIN st.dom :
                              IsBound(st, j) /\ ~IsBound(st, Value(st, j))}}

PredOf(st, t) == CHOOSE i \in DOMAIN st.dom : st.dom[i] = {t}

\* C19, amended: the phase db1 decides on the earliest of the unbound
\* variables with the fewest values; PreferBoundVars does so only while no
\* unbound variable is the successor of a bound one, and otherwise decides
\* on a successor of a bound variable with the fewest values among these
\* successors, the one whose bound predecessor is the earliest when several
\* tie; both assign the minimum of the variable's domain.
SmallestDomainAmongCandidates ==
    \A k \in 1..Len(stack) :
        LET d == stack[k]
            st == d.before
        IN /\ (state = "Build" /\ d.by = "db1") =>
                 /\ d.var = SetMin(Fewest(st, UnboundSucc(st)))
                 /\ d.val = SetMin(st.dom[d.var])
           /\ (state = "Build" /\ d.by = "db6") =>
                 /\ Targets(st) = {} =>
                       d.var = SetMin(Fewest(st, UnboundSucc(st)))
                 /\ Targets(st) # {} =>
                       /\ d.var \in Fewest(st, Targets(st))
                       /\ \A u \in Fewest(st, Targets(st)) :
                             PredOf(st, d.var) <= PredOf(st, u)
                 /\ d.val = SetMin(st.dom[d.var])

\* PreferBoundVars has decided on the successor of a bound variable while
\* an earlier unbound variable had a domain as small
SmallestDomainAmongCandidatesWitness ==
    /\ state = "Build"
    /\ stack # <<>>
    /\ stack[1].by = "db6"
    /\ stack[1].var \in Targets(stack[1].before)
    /\ stack[1].var # SetMin(Fewest(stack[1].before,
                                    UnboundSucc(stack[1].before)))

\* C20: every decision of SetSuccByCost is on an unbound variable with the
\* fewest values, and assigns it a value of its domain whose transition
\* cost from the variable's unit, ext_tcosts[tgt][k], is the least.
CostOrdered ==
    \A k \in 1..Len(stack) :
        LET d == stack[k]
            st == d.before
            T == ExtTcosts(model)
        IN (state = "Build" /\ d.by = "db5") =>
              /\ d.var \in Fewest(st, UnboundSucc(st))
              /\ d.val \in st.dom[d.var]
              /\ \A x \in st.dom[d.var] :
                    T[d.var + 1][d.val + 1] <= T[d.var + 1][x + 1]

\* C21: on every domain state it is called on, each successor builder
\* (SetSuccBasedOnDates, SetSuccByCost, PreferBoundVars) returns None if and
\* only if every succ variable is bound, and returns a decision on a succ
\* variable when some succ variable is unbound.
NoneIffAllBound ==
    state = "Build" =>
        \A b \in SuccBuilders :
            LET d == NextOf(b, model, store)
            IN /\ d = NoDecision <=> UnboundSucc(store) = {}
               /\ UnboundSucc(store) # {} => d.var \in DOMAIN store.dom

\* C22: a failure of propagation takes the driver to Backtracking and from
\* there to the second alternative of a Choice Point or, when no Choice
\* Point has one, to Exhausted: never to an error.  A search that fails at
\* the root, with no Choice Point, ends in Exhausted with no solution
\* recorded, and the script then prints that no solution was found.
FailureRecovered ==
    /\ [][(state = "Backtracking" /\ expired' = expired) =>
             /\ state' \in {"Propagating", "Exhausted"}
             /\ state' = "Exhausted" <=>
                   (\A k \in 1..Len(stack) : stack[k].alts = 0)
             /\ state' = "Propagating" => ~DomainEmpty(store')
             /\ sols' = sols]_vars
    /\ [](state \notin Fatal)
    /\ []((state = "Exhausted" /\ sols = <<>>) =>
             /\ scnt = 0
             /\ zbest = None
             /\ report # NoReport =>
                   ("No solution found" \in report.lines
                       /\ report.value = None))

\* the first propagation failed: the search is over without a Choice Point
\* ever opened, and "No solution found" is printed
FailureRecoveredWitness ==
    /\ state = "Exhausted"
    /\ DomainEmpty(store)
    /\ store.marks = <<>>
    /\ sols = <<>>
    /\ "No solution found" \in report.lines

\* C23: the step of the propagation loop in which a constraint reports Fail
\* is the last one: the worklist is dropped with the constraints still
\* waiting on it, failure is signaled, and from then on no constraint is
\* examined and no domain is narrowed; the failing step itself narrows only
\* variables of the constraint it examined.
FailShortCircuit ==
    /\ [][(~DomainEmpty(store) /\ DomainEmpty(store')) =>
             /\ worklist # <<>>
             /\ worklist' = <<>>
             /\ phase' = "failed"
             /\ \A v \in DOMAIN store.dom :
                   store'.dom[v] # store.dom[v] =>
                       v \in Scope(model.cons[Head(worklist)], store.dom)]_vars
    /\ [][phase = "failed" =>
             (store' = store /\ worklist' = worklist /\ phase' = phase)]_vars
    /\ [](phase = "failed" <=> DomainEmpty(store))

\* the second examination of a run reported Fail while a constraint woken by
\* the first one was still waiting on the worklist; it was never examined
FailShortCircuitWitness ==
    /\ phase = "failed"
    /\ worklist = <<>>
    /\ Len(model.cons) >= 2
    /\ LET r1 == Examine(NewStore(model.doms), AllConstraints(model.cons),
                         model.cons, bound)
       IN /\ r1.outcome = "Narrowed"
          /\ Len(r1.worklist) >= 2
          /\ LET r2 == Examine(r1.store, r1.worklist, model.cons, bound)
             IN /\ r2.outcome = "Fail"
                /\ store = r2.store

\* C24: the step taken on SolutionFound records the solution and its value
\* and counts it; when the count reaches stop_after the search is stopped,
\* it never goes back to Backtracking and records nothing more, so a run
\* with stop_after = k records at most k solutions; otherwise the step goes
\* to Backtracking to look for the next solution.
StopAfterSolutions ==
    /\ [][(state = "SolutionFound" /\ state' # state) =>
             /\ sols' = Append(sols, [x |-> Snapshot(model, store),
                                      z |-> ZValue(model, store)])
             /\ scnt' = scnt + 1
             /\ zbest' = ZValue(model, store)
             /\ xbest' = Snapshot(model, store)
             /\ IF cfg.stop_after # None /\ Len(sols') >= cfg.stop_after
                THEN state' = "Stopped"
                ELSE state' = "Backtracking"]_vars
    /\ [][state = "Stopped" => (state' = "Stopped" /\ sols' = sols)]_vars
    /\ [][sols' # sols => state = "SolutionFound"]_vars
    /\ [](scnt = Len(sols))
    /\ [](cfg.stop_after # None => Len(sols) <= cfg.stop_after)

\* a run with stop_after = 2 on a model with more than two solutions: the
\* first solution sent the search to Backtracking, the second stopped it
StopAfterSolutionsWitness ==
    /\ state = "Stopped"
    /\ cfg.stop_after = 2
    /\ Len(sols) = 2
    /\ sols[1].x # sols[2].x
    /\ stack # <<>>
    /\ Cardinality(Feasible(model)) > 2

\* C25: every search run ends in a terminal state and stays there: in
\* Exhausted, entered from Backtracking when no Choice Point has an untried
\* alternative, in TimedOut, entered only after the limit has expired, or
\* in Stopped, entered only when the solution count asks for it; no run
\* goes on forever through Propagating, Branching, Backtracking and
\* SolutionFound.
SearchTerminates ==
    /\ <>(state \in Terminal)
    /\ [][(state \in Terminal) => (state' = state)]_vars
    /\ [][(state' = "Exhausted" /\ state # "Exhausted") =>
             /\ state = "Backtracking"
             /\ \A k \in 1..Len(stack) : stack[k].alts = 0]_vars
    /\ [][(state = "Backtracking" /\ state' # state
             /\ \A k \in 1..Len(stack) : stack[k].alts = 0) =>
                state' = "Exhausted"]_vars
    /\ [][(state' = "TimedOut" /\ state # "TimedOut") =>
             (cfg.time_limit /\ expired)]_vars
    /\ [][(state' = "Stopped" /\ state # "Stopped") =>
             (cfg.stop_after # None /\ scnt' = cfg.stop_after)]_vars

\* a run without limit and without solution count that has gone through
\* three solutions and as many refuted decisions before it ended
SearchTerminatesWitness ==
    /\ state = "Exhausted"
    /\ ~cfg.time_limit
    /\ cfg.stop_after = None
    /\ Len(sols) >= 3
    /\ report # NoReport

\* C26: called with a succ variable unbound, SetSuccBasedOnDates.Next
\* returns a decision on the succ variable of the first unit of the date
\* order whose successor is unbound; the value is the unit that follows it
\* in the date order, and the first unit of the order when it is the last.
DateOrderChaining ==
    (state = "Build" /\ UnboundSucc(store) # {}) =>
        LET idx == SortedBy(DOMAIN model.date, model.date)
            pos == SetMin({k \in 1..Len(idx) : ~IsBound(store, idx[k])})
            d == SetSuccBasedOnDates(model, store)
        IN /\ d # NoDecision
           /\ d.var = idx[pos]
           /\ d.val = (IF pos = Len(idx) THEN idx[1] ELSE idx[pos + 1])

\* C27: with succ bound to a circuit, the chain followed from the fake unit
\* nu lists every real unit exactly once, each followed by its successor;
\* SetDatesBasedOnSucc.Next returns None exactly when the date of every unit
\* of the chain is bound, and otherwise the decision that assigns its
\* current maximum to the date of the latest unit of the chain whose date
\* is unbound.
DatesFollowChain ==
    state = "Dates" =>
        LET Q == Chain(model.succ, model.nu, model.nu)
            d == SetDatesBasedOnSucc(model, store)
            U == {k \in 1..Len(Q) : ~IsBound(store, Q[k])}
        IN /\ Len(Q) = model.nu
           /\ {Q[k] : k \in 1..Len(Q)} = 0..(model.nu - 1)
           /\ Q[1] = model.succ[model.nu]
           /\ \A k \in 1..(Len(Q) - 1) : Q[k + 1] = model.succ[Q[k]]
           /\ d = NoDecision <=> U = {}
           /\ U # {} =>
                 /\ d.var = Q[SetMax(U)]
                 /\ d.val = SetMax(store.dom[d.var])

\* two decisions were taken, the second on a unit that is not the last of
\* the chain, and a date of the chain is still unbound
DatesFollowChainWitness ==
    /\ state = "Dates"
    /\ Len(stack) = 2
    /\ model.succ[stack[2].var] # model.nu
    /\ \E i \in 0..(model.nu - 1) : ~IsBound(store, i)
    /\ SetDatesBasedOnSucc(model, store) # NoDecision

\* C28: every iteration of the LNS loop adds the elapsed time of its call of
\* solve, at least 1, to the accumulated time, which so increases strictly
\* at every iteration; an iteration starts only under the global limit, and
\* the loop has run at most global_time_limit iterations, whether or not
\* one of them improved the incumbent.
LnsProgress ==
    /\ [][lns'.cnt # lns.cnt =>
             /\ lns'.cnt = lns.cnt + 1
             /\ lns.time < lns.global_time_limit
             /\ lns'.time >= lns.time + 1]_vars
    /\ [][lns'.time # lns.time => lns'.cnt = lns.cnt + 1]_vars
    /\ [](lns.time >= lns.cnt + 1)
    /\ [](lns.cnt <= lns.global_time_limit)

\* the loop has ended on its condition after iterations of the smallest
\* elapsed time, the last of which found nothing, short of the optimum
LnsProgressWitness ==
    /\ lns.pc = "done"
    /\ lns.cnt >= 2
    /\ lns.time = lns.cnt + 1
    /\ lns.time >= lns.global_time_limit
    /\ lns.lz = None
    /\ lns.zbest # lns.best

\* C29: every decision that SetSuccByCost.Next or PreferBoundVars.Next
\* returns names a succ variable that is unbound in the domains the builder
\* was called on and a value of that variable's domain there, so the
\* assignment of the first alternative leaves no domain empty; this holds
\* of the decision each builder returns in every state and of the decisions
\* that were applied.
DecisionsWellFormed ==
    state = "Build" =>
        /\ \A b \in {"db5", "db6"} :
              LET d == NextOf(b, model, store)
              IN d # NoDecision =>
                    /\ d.var \in DOMAIN store.dom
                    /\ ~IsBound(store, d.var)
                    /\ d.val \in store.dom[d.var]
                    /\ assign(store, d.var, d.val).dom[d.var] = {d.val}
        /\ \A k \in 1..Len(stack) :
              stack[k].by \in {"db5", "db6"} =>
                 /\ ~IsBound(stack[k].before, stack[k].var)
                 /\ stack[k].val \in stack[k].before.dom[stack[k].var]
                 /\ store.dom[stack[k].var] = {stack[k].val}

\* a decision of SetSuccByCost on a variable of three values or more was
\* applied, and PreferBoundVars now returns one on the successor of a bound
\* variable
DecisionsWellFormedWitness ==
    /\ state = "Build"
    /\ stack # <<>>
    /\ stack[1].by = "db5"
    /\ Cardinality(stack[1].before.dom[stack[1].var]) >= 3
    /\ PreferBoundVars(model, store) # NoDecision
    /\ PreferBoundVars(model, store).var \in Targets(store)
    /\ SetSuccByCost(model, store).var # PreferBoundVars(model, store).var

\* C30: the incumbent sequence sbest is always a permutation of the
\* activities and zbest is its cost; in every iteration, once relaxed and
\* preorder are computed, no activity is in both, every activity is in one
\* of them exactly once, and preorder lists its activities in the order in
\* which sbest has them.
LnsPartition ==
    LET n == Len(lns.acts)
        Once(sq, i) == Cardinality({k \in 1..Len(sq) : sq[k] = i}) = 1
        Never(sq, i) == \A k \in 1..Len(sq) : sq[k] # i
    IN /\ Len(lns.sbest) = n
       /\ \A i \in 1..n : Once(lns.sbest, i)
       /\ lns.zbest = Cost(lns.acts, lns.sbest)
       /\ lns.pc = "solve" =>
             /\ \A i \in 1..n :
                   \/ Once(lns.relaxed, i) /\ Never(lns.preorder, i)
                   \/ Once(lns.preorder, i) /\ Never(lns.relaxed, i)
             /\ Len(lns.relaxed) + Len(lns.preorder) = n
             /\ \A k, l \in 1..Len(lns.preorder) :
                   k < l => PosOf(lns.sbest, lns.preorder[k])
                                < PosOf(lns.sbest, lns.preorder[l])

\* an iteration has replaced the incumbent, and the next one keeps two
\* activities in the incumbent's order, which is not their index order
LnsPartitionWitness ==
    /\ lns.pc = "solve"
    /\ lns.cnt >= 1
    /\ lns.lz # None
    /\ Len(lns.relaxed) = 1
    /\ Len(lns.preorder) = 2
    /\ lns.preorder[1] > lns.preorder[2]

====
